---- MODULE Spec2Model ----
(***************************************************************************)
(* The couloir relay (src/src/relay.js): the registry of couloirs kept in  *)
(* the closure of relay(), the per-socket handlers installed on every      *)
(* accepted socket, and the pairing of client sockets with exposer ("host")*)
(* sockets done by bindNextSockets.                                        *)
(*                                                                         *)
(* Bytes are modelled as TLA+ strings, one character per byte, so that the *)
(* search for the end of the head and the extraction of the Host header    *)
(* are computed on the bytes as the code computes them, and a chunk        *)
(* boundary can fall between any two bytes.                                *)
(*                                                                         *)
(* Every handler runs to completion on Node's single-threaded event loop:  *)
(* one action is one handler invocation.                                   *)
(***************************************************************************)
EXTENDS Integers, Sequences, FiniteSets, TLC

(* ------------------------------ bounds --------------------------------- *)

\* Sockets the relay accepts in one run of Spec.
MaxSockets == 3
\* Sockets the relay accepts in one run of SpecFew.
FewSockets == 2
\* Control messages the relay receives in one run.
MaxMsgs == 2

(* ----------------------------- constants ------------------------------- *)

\* relay({ domain }): the relay's domain.
domain == "t"
TYPE_HOST == "host"
TYPE_CLIENT == "client"
\* JavaScript null/undefined for a host name; falsy like the empty string.
NULL == ""

\* relay(argv) with --password: the password the relay is started with.
password == "p"

\* The password an OPEN_COULOIR presents: none, the relay's, another one.
Passwords == {NULL, password, "q"}

\* Host names exposers ask for in OPEN_COULOIR: none, one under the relay
\* domain, one outside it.
OpenHosts == {NULL, "x.t", "x.org"}

\* The i-th value returned by crypto.randomBytes(24).toString("hex"): the
\* values are taken to be pairwise distinct.
KeyName(i) == "k" \o ToString(i)
Keys == {KeyName(i) : i \in 1..MaxMsgs}

\* What an HTTP client sends: the head (P) and the bytes after it (Q).
ReqX == "G\r\nHost: x.t:8\r\n\r\nQ"
\* What the peer of an accepted socket sends as raw bytes: nothing (an
\* exposer that only speaks the control protocol) or an HTTP message.
Scripts == {"", ReqX}

\* Other things a peer sends: a first line that is neither a control tag nor
\* an HTTP request line, and a request for the relay domain itself.
Garbage == "X\r\n\r\n"
ReqDomain == "G\r\nHost: t\r\n\r\n"
OddScripts == {Garbage, ReqDomain}
AllScripts == Scripts \cup OddScripts

\* Where the TCP chunk boundaries of a script may fall (offsets from its
\* start): inside the CRLF-CRLF that ends the head, right after it, and at
\* the end of the script.
Boundaries ==
  [script \in AllScripts |->
     LET n == Len(script)
         sep == {i \in 0..(n - 4) : SubSeq(script, i + 1, i + 4) = "\r\n\r\n"}
         h == IF sep = {} THEN n ELSE (CHOOSE i \in sep : \A j \in sep : i <= j) + 4
     IN  {b \in {h - 1, h, n} : 1 <= b /\ b <= n}]

NOT_FOUND == "HTTP/1.1 404 Not found\r\n\r\nNot found"

(* ------------------------------ helpers -------------------------------- *)

Min(S) == CHOOSE a \in S : \A b \in S : a <= b

Range(seq) == {seq[i] : i \in 1..Len(seq)}

\* Buffer.subarray / String.slice for 0 <= start: the bytes at the 0-based
\* offsets start..end-1, end clamped to the length.
slice(s, start, end) ==
  LET to == IF end > Len(s) THEN Len(s) ELSE end
  IN  IF start >= to THEN "" ELSE SubSeq(s, start + 1, to)

\* Buffer.indexOf / String.indexOf: 0-based offset of the first occurrence,
\* -1 when there is none.
indexOf(s, p) ==
  LET hits == {i \in 0..(Len(s) - Len(p)) : slice(s, i, i + Len(p)) = p}
  IN  IF hits = {} THEN -1 ELSE Min(hits)

\* String.prototype.endsWith.
endsWith(s, suffix) ==
  /\ Len(s) >= Len(suffix)
  /\ slice(s, Len(s) - Len(suffix), Len(s)) = suffix

\* A character the regular expression dot does not match.
IsLineTerminator(c) == c \in {"\r", "\n"}

\* HOST_MATCH = /\r\nHost: (.+)\r\n/ tried at 0-based offset i of head: the
\* captured group, or NULL when the expression does not match there.  The
\* greedy (.+) runs up to the first line terminator, which must start \r\n.
HostMatchAt(head, i) ==
  LET pre == "\r\nHost: "
      v0  == i + Len(pre)
      stops == {e \in v0..(Len(head) - 1) : IsLineTerminator(slice(head, e, e + 1))}
      e == IF stops = {} THEN Len(head) ELSE Min(stops)
  IN  IF /\ slice(head, i, v0) = pre
         /\ e > v0
         /\ slice(head, e, e + 2) = "\r\n"
      THEN slice(head, v0, e)
      ELSE NULL

\* head.match(HOST_MATCH): the group of the leftmost match, NULL for no match.
HOST_MATCH(head) ==
  LET starts == {i \in 0..(Len(head) - 1) : HostMatchAt(head, i) # NULL}
  IN  IF starts = {} THEN NULL ELSE HostMatchAt(head, Min(starts))

\* value.replace(/:.*$/, ""): drops the port.
StripPort(value) ==
  LET c == indexOf(value, ":")
  IN  IF c = -1 THEN value ELSE slice(value, 0, c)

\* host_match && host_match[1].replace(/:.*$/, "")
HostOfHead(head) ==
  LET host_match == HOST_MATCH(head)
  IN  IF host_match = NULL THEN NULL ELSE StripPort(host_match)

(* ------------------------- what is written --------------------------- *)

\* A control message, and the payload of a control-protocol reply.
OPEN_COULOIR(host, presented) ==
  [tag |-> "OPEN_COULOIR", arg |-> host, password |-> presented]
JOIN_COULOIR(key) == [tag |-> "JOIN_COULOIR", arg |-> key, password |-> ""]
AckOpened(host, key) == [host |-> host, key |-> key, error |-> "", joined |-> FALSE]
AckJoined == [host |-> "", key |-> "", error |-> "", joined |-> TRUE]
AckError(message) == [host |-> "", key |-> "", error |-> message, joined |-> FALSE]

AlreadyOpened(host) == "Couloir host " \o host \o " is already opened"
InvalidKey == "Invalid couloir key. Please restart your couloir client."

(* ------------------------------- state --------------------------------- *)

VARIABLES
  couloirCounter,   \* let couloirCounter
  hosts,            \* const hosts: host name -> the exposer relaySockets (ids)
  clients,          \* const clients: host name -> the pending client relaySockets
  keyToHost,        \* const keyToHost
  socketCounter,    \* let socketCounter
  relaySockets,     \* id -> the relaySocket object of that connection
  stream,           \* id -> the Node socket: listeners, pipes, raw bytes written
  peer,             \* id -> the remote end: what it sends and how far it got
  reply,            \* the control reply the handler that just ran has sent
  keySeq,           \* random keys drawn so far
  msgCount,         \* control messages received so far
  server,           \* the net/tls server: listening, closing or closed
  httpPipe          \* one pipeHttpRequest(source, target, onHead) in progress

vars == <<couloirCounter, hosts, clients, keyToHost, socketCounter,
          relaySockets, stream, peer, reply, keySeq, msgCount, server, httpPipe>>

\* The state of relay().
relayVars == <<couloirCounter, hosts, clients, keyToHost, socketCounter,
               relaySockets, stream, peer, reply, keySeq, msgCount, server>>

Sockets == DOMAIN relaySockets

\* No control reply: the handler sent none.
NoReply == [to |-> -1, msg |-> [tag |-> "", arg |-> "", password |-> ""], payload |-> AckError(""),
            idle |-> FALSE, rawBefore |-> 0]

\* What the handlers read and write: the closure of relay() and the sockets.
World == [couloirCounter |-> couloirCounter, hosts |-> hosts, clients |-> clients,
          keyToHost |-> keyToHost, relaySockets |-> relaySockets,
          stream |-> stream, reply |-> NoReply, keySeq |-> keySeq]

\* The bytes the peer of socket id has sent so far.
Sent(id) == slice(peer[id].script, 0, peer[id].pos)

\* The exposer sockets listed in some couloir.
Listed(w) == UNION {Range(w.hosts[h]) : h \in DOMAIN w.hosts}

\* The client sockets waiting in some couloir's queue.
Queued(w) == UNION {Range(w.clients[h]) : h \in DOMAIN w.clients}

\* A write reaches the peer unless the writable side was ended or the
\* connection is gone.
Writable(w, id) ==
  ~w.stream[id].ended /\ ~w.stream[id].wend /\ ~w.stream[id].destroyed

\* socket.write(data) of raw bytes.
write(w, id, data) ==
  IF Writable(w, id) THEN [w EXCEPT !.stream[id].raw = @ \o data] ELSE w

\* sendResponse(payload) on socket id, answering msg.  With the reply are
\* kept two facts of the moment it is sent: whether the socket is listed in
\* a couloir's hosts and how many raw bytes have been written to it.
sendResponse(w, id, msg, payload) ==
  [w EXCEPT !.reply = [to |-> id, msg |-> msg, payload |-> payload,
                       idle |-> id \in Listed(w),
                       rawBefore |-> Len(w.stream[id].raw)]]

\* source.pipe(dest): later chunks of source are written to dest, and dest
\* is ended when source ends (see nextTick for a source that has ended).
pipe(w, source, dest) ==
  [w EXCEPT !.stream[source].pipes = Append(@, dest)]

\* What Node runs once the handler has returned: the destinations of a
\* source that has emitted 'end' are ended.
nextTick(w) ==
  [w EXCEPT !.stream = [d \in DOMAIN w.stream |->
     [w.stream[d] EXCEPT !.wend =
        @ \/ \E src \in DOMAIN w.stream :
               w.stream[src].ended /\ d \in Range(w.stream[src].pipes)]]]

\* The empty object {}.
EmptyMap == [k \in {} |-> NULL]

\* delete object[key]
Delete(object, key) == [k \in DOMAIN object \ {key} |-> object[k]]

\* No pipeHttpRequest is in progress.
NoPipe == [source |-> "", pos |-> 0, sourceEnded |-> FALSE, headBuffer |-> "",
           headDone |-> FALSE, onHeadCalls |-> 0, target |-> "", targetEnded |-> FALSE]

\* relay() has just been called: no couloir, no socket.
RelayInit ==
  /\ couloirCounter = 0
  /\ hosts = EmptyMap
  /\ clients = EmptyMap
  /\ keyToHost = EmptyMap
  /\ socketCounter = 0
  /\ relaySockets = EmptyMap
  /\ stream = EmptyMap
  /\ peer = EmptyMap
  /\ reply = NoReply
  /\ keySeq = 0
  /\ msgCount = 0
  /\ server = "listening"

Init == RelayInit /\ httpPipe = NoPipe

(* ------------------------------ pairing -------------------------------- *)

\* The loop body without the pipe from the exposer socket to the client.
bindPairOneWay(w, host, hostSocket) ==
  LET clientSocket == Head(w.clients[host])
      w1 == [w EXCEPT !.clients[host] = Tail(@),
                      !.relaySockets[clientSocket].busy = TRUE,
                      !.relaySockets[hostSocket].busy = TRUE]
      w2 == pipe(w1, clientSocket, hostSocket)
  IN  write(w2, hostSocket, w2.relaySockets[clientSocket].requestBuffer)

\* The body of the while loop of bindNextSockets before its recursive call:
\* the first pending client is shifted out and spliced to hostSocket.
bindPair(w, host, hostSocket) ==
  LET clientSocket == Head(w.clients[host])
      w1 == [w EXCEPT !.clients[host] = Tail(@),
                      !.relaySockets[clientSocket].busy = TRUE,
                      !.relaySockets[hostSocket].busy = TRUE]
      w2 == pipe(w1, clientSocket, hostSocket)
      \* Write the data that has already been consumed
      w3 == write(w2, hostSocket, w2.relaySockets[clientSocket].requestBuffer)
  IN  pipe(w3, hostSocket, clientSocket)

RECURSIVE bindNextSockets(_, _)
RECURSIVE bindLoop(_, _, _)

\* The while loop of bindNextSockets: pendingHosts is the list computed
\* when this invocation started and is never shortened.
bindLoop(w, host, pendingHosts) ==
  IF Len(w.clients[host]) > 0 /\ Len(pendingHosts) > 0
  THEN bindLoop(bindNextSockets(bindPair(w, host, pendingHosts[1]), host),
                host, pendingHosts)
  ELSE w

bindNextSockets(w, host) ==
  bindLoop(w, host, SelectSeq(w.hosts[host], LAMBDA id : ~w.relaySockets[id].busy))

(* ------------------------------ handlers ------------------------------- *)

\* The world after a handler has run is the next state.
Becomes(w) ==
  /\ couloirCounter' = w.couloirCounter
  /\ hosts' = w.hosts
  /\ clients' = w.clients
  /\ keyToHost' = w.keyToHost
  /\ relaySockets' = w.relaySockets
  /\ stream' = nextTick(w).stream
  /\ reply' = w.reply
  /\ keySeq' = w.keySeq

\* The callback of createRelayServers: a connection is accepted, its
\* relaySocket is created and the handlers are installed.  script is what
\* the remote end is going to send as raw bytes; limit bounds the run.
onSocket(script, limit) ==
  LET id == socketCounter
  IN  /\ server = "listening"
      /\ socketCounter < limit
      /\ socketCounter' = socketCounter + 1
      /\ relaySockets' = (id :> [id |-> id, host |-> NULL, requestBuffer |-> "",
                                 type |-> TYPE_CLIENT, busy |-> FALSE]) @@ relaySockets
      /\ stream' = (id :> [listening |-> TRUE, ended |-> FALSE, wend |-> FALSE,
                           destroyed |-> FALSE, pipes |-> <<>>, raw |-> ""]) @@ stream
      /\ peer' = (id :> [script |-> script, pos |-> 0]) @@ peer
      /\ reply' = NoReply
      /\ UNCHANGED <<couloirCounter, hosts, clients, keyToHost, keySeq, msgCount,
                      server, httpPipe>>

\* The host name onCouloirOpen settles on.
chosenHost(w, host) ==
  IF ~endsWith(host, "." \o domain)
  THEN "couloir" \o (IF w.couloirCounter > 1 THEN ToString(w.couloirCounter) ELSE "")
                 \o "." \o domain
  ELSE host

\* The control reader of a socket dispatches a message only while the
\* socket is still in its preface: it has sent no raw byte, is not spliced
\* and has not ended.
ControlReaderActive(id) ==
  /\ ~stream[id].ended
  /\ ~stream[id].destroyed
  /\ peer[id].pos = 0
  /\ ~relaySockets[id].busy
  /\ msgCount < MaxMsgs

\* The early return of onCouloirOpen: host is already open.
rejectOpenCounted(w, id, msg, host) ==
  [sendResponse(w, id, msg, AckError(AlreadyOpened(host)))
     EXCEPT !.couloirCounter = @ + 1]

rejectOpen(w, id, msg, host) ==
  sendResponse(w, id, msg, AckError(AlreadyOpened(host)))

\* onCouloirOpen(host, sendResponse) on socket id, in the world w.
openCouloir(w, id, requested, presented) ==
  LET msg == OPEN_COULOIR(requested, presented)
      typed == [w EXCEPT !.relaySockets[id].type = TYPE_HOST]
      host == chosenHost(typed, requested)
      key == KeyName(w.keySeq + 1)
  IN  IF host \in DOMAIN typed.hosts
      THEN rejectOpen(typed, id, msg, host)
      ELSE sendResponse([typed EXCEPT !.couloirCounter = @ + 1,
                                      !.keySeq = @ + 1,
                                      !.relaySockets[id].host = host,
                                      !.keyToHost = (key :> host) @@ @,
                                      !.hosts = (host :> <<>>) @@ @,
                                      !.clients = (host :> <<>>) @@ @],
                        id, msg, AckOpened(host, key))

onCouloirOpen(id, requested, presented) ==
  /\ ControlReaderActive(id)
  /\ msgCount' = msgCount + 1
  /\ UNCHANGED <<socketCounter, peer, server, httpPipe>>
  /\ Becomes(openCouloir(World, id, requested, presented))

\* onCouloirJoin with pairing run before the reply is sent.
joinCouloirBindFirst(w, id, key) ==
  LET msg == JOIN_COULOIR(key)
      typed == [w EXCEPT !.relaySockets[id].type = TYPE_HOST]
      host == IF key \in DOMAIN typed.keyToHost THEN typed.keyToHost[key] ELSE NULL
  IN  IF host # NULL
      THEN LET pushed == [typed EXCEPT !.relaySockets[id].host = host,
                                       !.hosts[host] = Append(@, id)]
           IN  sendResponse(bindNextSockets(pushed, host), id, msg, AckJoined)
      ELSE sendResponse(typed, id, msg, AckError(InvalidKey))

\* onCouloirJoin(key, sendResponse) on socket id, in the world w.
joinCouloir(w, id, key) ==
  LET msg == JOIN_COULOIR(key)
      typed == [w EXCEPT !.relaySockets[id].type = TYPE_HOST]
      host == IF key \in DOMAIN typed.keyToHost THEN typed.keyToHost[key] ELSE NULL
  IN  IF host # NULL
      THEN LET pushed == [typed EXCEPT !.relaySockets[id].host = host,
                                       !.hosts[host] = Append(@, id)]
           IN  bindNextSockets(sendResponse(pushed, id, msg, AckJoined), host)
      ELSE sendResponse(typed, id, msg, AckError(InvalidKey))

onCouloirJoin(id, key) ==
  /\ ControlReaderActive(id)
  /\ msgCount' = msgCount + 1
  /\ UNCHANGED <<socketCounter, peer, server, httpPipe>>
  /\ Becomes(joinCouloir(World, id, key))

\* socket.off("data", onSocketClientData)
offData(w, id) == [w EXCEPT !.stream[id].listening = FALSE]

\* What onSocketClientData reads in a request buffer: where the head ends
\* and the couloir host its Host header names.  A buffer is a prefix of
\* what the peer sends, and each is parsed once.
parseBuffer ==
  [requestBuffer \in {slice(script, 0, b) : script \in AllScripts, b \in 0..Len(ReqX)} |->
     LET headLastByte == indexOf(requestBuffer, "\r\n\r\n")
         head == slice(requestBuffer, 0, headLastByte + 2)
     IN  [headLastByte |-> headLastByte,
          host |-> IF headLastByte = -1 THEN NULL ELSE HostOfHead(head)]]

\* onSocketClientData past its first test: the chunk is buffered and, once
\* the head is complete, the socket is queued on its couloir or answered 404.
bufferClientData(w, id, data) ==
  LET requestBuffer == w.relaySockets[id].requestBuffer \o data
      buffered == [w EXCEPT !.relaySockets[id].requestBuffer = requestBuffer]
      headLastByte == parseBuffer[requestBuffer].headLastByte
      host == parseBuffer[requestBuffer].host
  IN  IF headLastByte = -1 THEN buffered
      ELSE IF host # NULL /\ host \in DOMAIN w.hosts
      THEN offData(bindNextSockets(
             [buffered EXCEPT !.relaySockets[id].host = host,
                              !.clients[host] = Append(@, id)], host), id)
      ELSE [write(buffered, id, NOT_FOUND) EXCEPT !.stream[id].wend = TRUE]

\* onSocketClientData without its first test: an exposer's bytes are parsed
\* as a client's request.
onSocketClientDataAnyType(w, id, data) == bufferClientData(w, id, data)

\* onSocketClientData(data) on socket id.
onSocketClientData(w, id, data) ==
  IF w.relaySockets[id].type = TYPE_HOST THEN offData(w, id)
  ELSE bufferClientData(w, id, data)

\* The listeners a piped source has: the chunk is written to every
\* destination, in the order the pipes were made.
RECURSIVE pipeData(_, _, _)
pipeData(w, dests, data) ==
  IF dests = <<>> THEN w
  ELSE pipeData(write(w, Head(dests), data), Tail(dests), data)

\* A 'data' event on socket id: the next n bytes of its peer arrive.  The
\* listeners that were attached when the event was emitted run in the order
\* they were attached: onSocketClientData, then the pipes.  A chunk that
\* finds no listener is dropped: socket.off does not pause the stream.
onData(id, n) ==
  LET data == slice(peer[id].script, peer[id].pos, peer[id].pos + n)
      handled == IF stream[id].listening THEN onSocketClientData(World, id, data)
                 ELSE World
  IN  /\ ~stream[id].ended
      /\ ~stream[id].destroyed
      /\ peer[id].pos + n \in Boundaries[peer[id].script]
      /\ peer' = [peer EXCEPT ![id].pos = @ + n]
      /\ Becomes(pipeData(handled, stream[id].pipes, data))
      /\ UNCHANGED <<socketCounter, msgCount, server, httpPipe>>

\* closeCouloirIfEmpty(host) that leaves the keys of the couloir behind.
closeCouloirIfEmptyKeepsKey(w, host) ==
  IF Len(w.hosts[host]) > 0 THEN w
  ELSE [w EXCEPT !.hosts = Delete(@, host), !.clients = Delete(@, host)]

\* closeCouloirIfEmpty(host)
closeCouloirIfEmpty(w, host) ==
  IF Len(w.hosts[host]) > 0 THEN w
  ELSE [w EXCEPT !.hosts = Delete(@, host),
                 !.clients = Delete(@, host),
                 !.keyToHost = [key \in {k \in DOMAIN @ : @[k] # host} |-> @[key]]]

\* The callback of relay.close runs once the server has stopped listening
\* and every connection it accepted is closed.
closeCallback(was, sockets) ==
  IF was = "closing" /\ \A id \in DOMAIN sockets :
                          sockets[id].ended \/ sockets[id].destroyed
  THEN "closed" ELSE was

\* The 'end' event on socket id: the remote end has closed the connection.
onEnd(id) ==
  LET host == relaySockets[id].host
      ended == [World EXCEPT !.stream[id].ended = TRUE]
  IN  /\ ~stream[id].ended
      /\ ~stream[id].destroyed
      /\ UNCHANGED <<socketCounter, peer, msgCount, httpPipe>>
      /\ IF host # NULL /\ relaySockets[id].type = TYPE_HOST /\ host \in DOMAIN hosts
         THEN Becomes(closeCouloirIfEmpty(
                [ended EXCEPT !.hosts[host] = SelectSeq(@, LAMBDA other : other # id)],
                host))
         ELSE Becomes(ended)
      /\ server' = closeCallback(server, stream')

\* The 'error' event on socket id: the error is logged; Node destroys the
\* socket and emits no 'end'.
onError(id) ==
  /\ ~stream[id].ended
  /\ ~stream[id].destroyed
  /\ Becomes([World EXCEPT !.stream[id].destroyed = TRUE])
  /\ server' = closeCallback(server, stream')
  /\ UNCHANGED <<socketCounter, peer, msgCount, httpPipe>>

\* stop(): relay.close(resolve) stops the server from accepting connections
\* and keeps the connections it has; the promise resolves in the callback.
stop ==
  /\ server = "listening"
  /\ server' = closeCallback("closing", stream)
  /\ reply' = NoReply
  /\ UNCHANGED <<couloirCounter, hosts, clients, keyToHost, socketCounter,
                  relaySockets, stream, peer, keySeq, msgCount, httpPipe>>

Accept == \E script \in Scripts : onSocket(script, MaxSockets)
AcceptFew == \E script \in Scripts : onSocket(script, FewSockets)
Open == \E id \in Sockets, host \in OpenHosts : onCouloirOpen(id, host, NULL)
Join == \E id \in Sockets, key \in Keys : onCouloirJoin(id, key)
Data == \E id \in Sockets : \E b \in Boundaries[peer[id].script] :
          b > peer[id].pos /\ onData(id, b - peer[id].pos)
End == \E id \in Sockets : onEnd(id)
AcceptAny == \E script \in AllScripts : onSocket(script, FewSockets)
OpenAny == \E id \in Sockets, host \in OpenHosts, presented \in Passwords :
             onCouloirOpen(id, host, presented)
Error == \E id \in Sockets : onError(id)
Stop == stop

Next == Accept \/ Open \/ Join \/ Data \/ End
NextFew == AcceptFew \/ Open \/ Join \/ Data \/ End
NextWide == AcceptAny \/ OpenAny \/ Join \/ Data \/ End \/ Error \/ Stop

\* The relay with up to MaxSockets connections.
Spec == Init /\ [][Next]_vars
\* The relay with up to FewSockets connections.
SpecFew == Init /\ [][NextFew]_vars
\* The relay with up to FewSockets connections, started with a password,
\* with socket errors, stop() and peers that send other things.
SpecWide == Init /\ [][NextWide]_vars

(* --------------------------- pipeHttpRequest --------------------------- *)

\* In the bytes of a source "#" stands for a byte that is not valid UTF-8
\* (0xFF).  Decoding it gives U+FFFD, written "@" in a decoded string, and
\* encoding U+FFFD gives the three bytes EF BF BD, written "~~~".
RECURSIVE toStringUtf8(_)
toStringUtf8(buffer) ==
  IF buffer = "" THEN ""
  ELSE (IF slice(buffer, 0, 1) = "#" THEN "@" ELSE slice(buffer, 0, 1))
         \o toStringUtf8(slice(buffer, 1, Len(buffer)))

RECURSIVE BufferFrom(_)
BufferFrom(string) ==
  IF string = "" THEN ""
  ELSE (IF slice(string, 0, 1) = "@" THEN "~~~" ELSE slice(string, 0, 1))
         \o BufferFrom(slice(string, 1, Len(string)))

\* The onHead callback that returns the head it is given.
onHead(head) == head

\* What a source sends: requests with and without a body, with an empty
\* head, with two empty lines, with a byte that is not UTF-8, and a head
\* that is never completed.
PipeSources == {"a\r\n\r\nb", "ab\r\n\r\n", "a\r\n", "\r\n\r\nbc",
                "a\r\n\r\nb\r\n\r\n", "a: #\r\n\r\nb", "G /\r\nH: x\r\n\r\nQQ",
                "GET / HTTP/1.1\r\nHost: x.t\r\n\r\nbody"}

\* pipeHttpRequest(source, target, onHead) has just been called.
PipeInit ==
  /\ RelayInit
  /\ httpPipe \in {[NoPipe EXCEPT !.source = source] : source \in PipeSources}

\* source.on("data", ...): the next n bytes of the source arrive.
pipeOnData(n) ==
  LET data == slice(httpPipe.source, httpPipe.pos, httpPipe.pos + n)
      headBuffer == IF httpPipe.headBuffer # "" THEN httpPipe.headBuffer \o data
                    ELSE data
      bodySeparator == indexOf(headBuffer, "\r\n\r\n")
      bodyChunk == slice(headBuffer, bodySeparator, Len(headBuffer))
      newHead == onHead(toStringUtf8(slice(headBuffer, 0, bodySeparator)))
  IN  /\ httpPipe.source # ""
      /\ ~httpPipe.sourceEnded
      /\ httpPipe.pos + n <= Len(httpPipe.source)
      /\ httpPipe' =
           IF ~httpPipe.headDone
           THEN IF bodySeparator >= 0
                THEN [httpPipe EXCEPT !.pos = @ + n,
                                      !.headBuffer = slice(headBuffer, 0, bodySeparator),
                                      !.onHeadCalls = @ + 1,
                                      !.headDone = TRUE,
                                      !.target = @ \o BufferFrom(newHead) \o bodyChunk]
                ELSE [httpPipe EXCEPT !.pos = @ + n, !.headBuffer = headBuffer]
           ELSE [httpPipe EXCEPT !.pos = @ + n, !.target = @ \o data]
      /\ UNCHANGED relayVars

\* source.on("end", () => target.end())
pipeOnEnd ==
  /\ httpPipe.source # ""
  /\ ~httpPipe.sourceEnded
  /\ httpPipe' = [httpPipe EXCEPT !.sourceEnded = TRUE, !.targetEnded = TRUE]
  /\ UNCHANGED relayVars

PipeData == \E n \in 1..Len(httpPipe.source) : pipeOnData(n)
PipeEnd == pipeOnEnd
PipeNext == PipeData \/ PipeEnd

\* One pipeHttpRequest, from the call to the end of its source.
SpecPipe == PipeInit /\ [][PipeNext]_vars

(* ------------------------------ properties ----------------------------- *)

\* The client sockets spliced to exposer socket e.
BoundClients(e) ==
  {c \in Sockets : relaySockets[c].type = TYPE_CLIENT /\ e \in Range(stream[c].pipes)}

\* Every host name a socket was registered under.
HostNames == {relaySockets[s].host : s \in Sockets} \ {NULL}

\* C1: an exposer socket is spliced to at most one client over its
\* lifetime, also when several clients are pending as it joins.
ExposerServesOneClient ==
  \A e \in Sockets : Cardinality(BoundClients(e)) <= 1

\* C2: the exposer socket a client is bound to has received exactly the
\* bytes the client has sent, the head first and the rest after it, also
\* when the client waited in the pending queue.
PrefaceThenRest ==
  \A c, e \in Sockets :
    (relaySockets[c].type = TYPE_CLIENT
       /\ e \in Range(stream[c].pipes)
       /\ Writable(World, e))
    => stream[e].raw = Sent(c)

\* C3: a couloir is never deleted while a client is pending on it: every
\* client that was queued and is not yet bound is in the queue of its
\* couloir, which is still registered.
CouloirKeptWhileInUse ==
  \A c \in Sockets :
    (relaySockets[c].type = TYPE_CLIENT /\ relaySockets[c].host # NULL
       /\ ~relaySockets[c].busy)
    => /\ relaySockets[c].host \in DOMAIN clients
       /\ c \in Range(clients[relaySockets[c].host])

\* C4: an OPEN_COULOIR that names no host of the relay domain is answered
\* with a synthesized name that is not in use, never with an error.
DefaultOpenNamesFresh ==
  (reply.msg.tag = "OPEN_COULOIR" /\ ~endsWith(reply.msg.arg, "." \o domain))
  => reply.payload.error = ""

\* C5: a client that was answered 404 is never added to a queue.
NotFoundNeverQueued ==
  \A c \in Sockets :
    slice(stream[c].raw, 0, Len(NOT_FOUND)) = NOT_FOUND
    => /\ relaySockets[c].host = NULL
       /\ c \notin Queued(World)

\* C6: an OPEN_COULOIR for a host that is open is answered with the
\* "already opened" error, and a step that answers an OPEN_COULOIR with an
\* error leaves hosts, clients, the keys and the counter as they were.
DuplicateOpenRejected ==
  [][reply'.msg.tag = "OPEN_COULOIR" =>
       /\ reply'.msg.arg \in DOMAIN hosts
            => reply'.payload = AckError(AlreadyOpened(reply'.msg.arg))
       /\ reply'.payload.error # ""
            => /\ \E h \in DOMAIN hosts : reply'.payload.error = AlreadyOpened(h)
               /\ UNCHANGED <<hosts, clients, keyToHost, couloirCounter>>
       /\ reply'.payload.error = ""
            => /\ reply'.payload.host \notin DOMAIN hosts
               /\ reply'.payload.host \in DOMAIN hosts']_vars

\* C6 happens: an OPEN_COULOIR was just answered with an error.
DuplicateOpenAnswered ==
  reply.msg.tag = "OPEN_COULOIR" /\ reply.payload.error # ""

\* C7: every open host has exactly one key, every key belongs to an open
\* host, and the pending queues are those of the open hosts.
KeysMatchHosts ==
  /\ \A h \in DOMAIN hosts :
       Cardinality({k \in DOMAIN keyToHost : keyToHost[k] = h}) = 1
  /\ \A k \in DOMAIN keyToHost : keyToHost[k] \in DOMAIN hosts
  /\ DOMAIN clients = DOMAIN hosts

\* C7 happens: two keys were issued and one couloir remains, the other was
\* torn down.
KeyPurgedOnTeardown ==
  keySeq = 2 /\ Cardinality(DOMAIN hosts) = 1

PairingConsumesOneEach ==
  /\ \A h \in HostNames :
       Cardinality({e \in Sockets : /\ relaySockets[e].type = TYPE_HOST
                                    /\ relaySockets[e].host = h
                                    /\ relaySockets[e].busy})
       = Cardinality({c \in Sockets : /\ relaySockets[c].type = TYPE_CLIENT
                                      /\ relaySockets[c].host = h
                                      /\ relaySockets[c].busy})
  /\ \A h \in DOMAIN hosts :
       ~(/\ \E e \in Range(hosts[h]) : ~relaySockets[e].busy
         /\ Len(clients[h]) > 0)

OpenNeedsPassword ==
  (reply.msg.tag = "OPEN_COULOIR" /\ reply.msg.password # password)
  => reply.payload.error # ""

\* C12: once a JOIN_COULOIR has been answered with the invalid-key error the
\* relay has closed the socket it came from.
InvalidJoinClosesSocket ==
  reply.payload.error = InvalidKey => stream[reply.to].wend

\* The start of the response to bytes that are neither a control message
\* nor an HTTP request.
BAD_REQUEST == "HTTP/1.1 400 Bad Request"

\* C13: a socket whose first line is neither a control tag nor an HTTP
\* request line is written nothing but the 400 response, and is neither
\* queued as a client nor listed as an exposer.
GarbageAnswered400 ==
  \A s \in Sockets :
    (peer[s].script = Garbage /\ relaySockets[s].type = TYPE_CLIENT)
    => /\ stream[s].raw # "" => slice(stream[s].raw, 0, Len(BAD_REQUEST)) = BAD_REQUEST
       /\ relaySockets[s].host = NULL
       /\ s \notin Queued(World) \cup Listed(World)

\* The words of the page that tells how to open a couloir.
OPEN_HINT == "To open a new couloir"

\* C14: a client whose request names the relay domain as its Host is
\* written nothing but the page with the hint, never the 404 response, and
\* is not queued on a couloir.
RelayDomainGetsPage ==
  \A s \in Sockets :
    (peer[s].script = ReqDomain /\ relaySockets[s].type = TYPE_CLIENT)
    => /\ stream[s].raw # "" => indexOf(stream[s].raw, OPEN_HINT) # -1
       /\ slice(stream[s].raw, 0, Len(NOT_FOUND)) # NOT_FOUND
       /\ s \notin Queued(World)

\* The clients of couloir h that the step binds.
NewlyBound(h) ==
  {c \in Sockets : /\ relaySockets'[c].type = TYPE_CLIENT
                   /\ relaySockets'[c].host = h
                   /\ ~relaySockets[c].busy
                   /\ relaySockets'[c].busy}

\* The place of client c in the order of arrival on couloir h: its place in
\* the queue, or behind the queue when it arrives in this step.
Arrival(h, c) ==
  IF c \in Range(clients[h])
  THEN Min({i \in 1..Len(clients[h]) : clients[h][i] = c})
  ELSE Len(clients[h]) + 1

\* C15: pairing is first in, first out on both sides: the clients a step
\* binds are the first of the queue, and the k-th of them is spliced to the
\* k-th exposer socket, in the order they joined, that was idle.
PairsInOrder ==
  [][\A h \in DOMAIN hosts \cap DOMAIN hosts' :
       LET idle == SelectSeq(hosts'[h], LAMBDA e : ~relaySockets[e].busy)
       IN  \A c \in NewlyBound(h) :
             LET k == Cardinality({d \in NewlyBound(h) : Arrival(h, d) < Arrival(h, c)}) + 1
             IN  /\ \A d \in Range(clients[h]) \ NewlyBound(h) :
                      Arrival(h, d) > Arrival(h, c)
                 /\ k <= Len(idle)
                 /\ Range(stream'[c].pipes) = {idle[k]}]_vars

\* C16: in every bound pair, once one side has ended, end() has been called
\* on the other side, from the client to the exposer socket and back.
EndReachesPeer ==
  \A e \in Sockets : \A c \in BoundClients(e) :
    /\ stream[c].ended => stream[e].wend
    /\ stream[e].ended => stream[c].wend

\* C16 happens: the exposer socket of a pair has ended and its client,
\* still connected, has been ended by the relay.
ExposerEndClosesClient ==
  \E e \in Sockets : \E c \in BoundClients(e) :
    stream[e].ended /\ ~stream[c].ended /\ stream[c].wend

\* C17: once stop() has been called the relay has closed every bound pair:
\* each socket of a pair is ended by the relay or already gone.
StopClosesPairs ==
  server # "listening"
  => \A s \in Sockets :
       relaySockets[s].busy
       => stream[s].wend \/ stream[s].ended \/ stream[s].destroyed

\* C18: no couloir lists an exposer socket that has disconnected, by an
\* end or by an error.
NoDeadExposerListed ==
  \A h \in DOMAIN hosts : \A e \in Range(hosts[h]) :
    ~stream[e].ended /\ ~stream[e].destroyed

\* C19: the queue of a couloir holds only clients that are still connected.
PendingClientsConnected ==
  \A h \in DOMAIN clients : \A c \in Range(clients[h]) : ~stream[c].ended

\* C20: with an onHead that returns the head unchanged, once the head has
\* been passed on the target has been written exactly the bytes the source
\* has sent, onHead has been called once, and once the source has ended the
\* target has every byte it sent and is ended.
PipeForwardsAll ==
  LET sent == slice(httpPipe.source, 0, httpPipe.pos)
  IN  /\ httpPipe.onHeadCalls <= 1
      /\ httpPipe.headDone => httpPipe.onHeadCalls = 1 /\ httpPipe.target = sent
      /\ httpPipe.sourceEnded => httpPipe.targetEnded /\ httpPipe.target = sent

====
